---- MODULE Spec2Model ----
(***************************************************************************)
(* fileflow backend: the upload pipeline (upload_single_file,              *)
(* upload_multiple) and the share-link registry (share_links) with its     *)
(* readers get_share_link, redirect_to_file and its remover delete_file.   *)
(* The Supabase storage bucket is the environment: every call to it may    *)
(* succeed, return a result carrying an error field, or raise.             *)
(***************************************************************************)
EXTENDS Integers, Sequences, FiniteSets, TLC

VARIABLES
    share_links,   \* upload_router.share_links: share_id -> entry
    bucket,        \* paths of the objects held by the storage bucket
    last,          \* the most recent request and its response
    assigned,      \* the share ids given to an entry so far in this process run
    files,         \* upload_multiple: the submitted list of UploadFile
    task,          \* upload_multiple: position of each upload_with_semaphore task
    results,       \* upload_multiple: what gather collects, by request index
    semaphore,     \* upload_multiple: value of asyncio.Semaphore(5)
    batch_pc,      \* upload_multiple: position of the handler
    batch_calls,   \* number of storage calls issued by the tasks of the batch
    deletes        \* the delete requests in flight, each with its handler's position

vars == <<share_links, bucket, last, assigned, files, task, results, semaphore, batch_pc,
         batch_calls, deletes>>

batch_vars == <<files, task, results, semaphore, batch_pc, batch_calls>>

-----------------------------------------------------------------------------
(* Program constants *)

MAX_FILE_SIZE == 49 * 1024 * 1024
chunk_size == 1024 * 1024
MAX_BATCH_FILES == 20
SEMAPHORE_SLOTS == 5

(* Bounds of the model *)

\* number of distinct values uuid4().hex takes in a run
MaxTokens == 2
\* number of distinct values the 8-character md5 prefix takes in a run
MaxShareIds == 2
\* longest batch whose files are drawn freely
MaxFreeBatch == 2
MaxNameLen == 4
\* number of delete requests in flight at once
MaxDeletes == 2

-----------------------------------------------------------------------------
(* Values *)

\* file.size is Optional[int]
NoSize == -1

NoUrl == [kind |-> "None"]
Url(path) == [kind |-> "url", path |-> path]

Tokens == 1..MaxTokens
ShareIds == 1..MaxShareIds

\* the characters of the model's filenames that \w matches
WordChars == {"a", "1", "_"}

Names == { <<"a", " ">>, <<"a">> }
ContentTypes == {"None", "text/plain"}
DeclaredSizes == {NoSize, 0, 1, MAX_FILE_SIZE + 1}
StreamLens == {0, 1, MAX_FILE_SIZE, MAX_FILE_SIZE + 1}

UploadFiles ==
    [filename : Names, size : DeclaredSizes,
     content_type : ContentTypes, stream : StreamLens]

\* outcomes of a storage call
PutOutcomes == {"ok", "error_field", "raises"}
UrlOutcomes == {"ok", "raises"}
RemoveOutcomes == {"ok", "error_field", "raises"}

-----------------------------------------------------------------------------
(* Filename sanitization: the three statements of upload_single_file *)

\* re.sub(r'[^\w\-_.]', '_', name)
ReplaceInvalid(name) ==
    [i \in 1..Len(name) |->
        IF name[i] \in WordChars \cup {"-", "_", "."} THEN name[i] ELSE "_"]

\* re.sub(r'_+', '_', s)
RECURSIVE CollapseUnderscores(_)
CollapseUnderscores(s) ==
    IF Len(s) <= 1 THEN s
    ELSE IF s[1] = "_" /\ s[2] = "_" THEN CollapseUnderscores(Tail(s))
    ELSE <<s[1]>> \o CollapseUnderscores(Tail(s))

\* s.strip('_')
RECURSIVE StripLeft(_)
StripLeft(s) ==
    IF s # <<>> /\ s[1] = "_" THEN StripLeft(Tail(s)) ELSE s

RECURSIVE StripRight(_)
StripRight(s) ==
    IF s # <<>> /\ s[Len(s)] = "_" THEN StripRight(SubSeq(s, 1, Len(s) - 1)) ELSE s

\* the sanitization without its last statement
safe_filename_Unstripped(name) == CollapseUnderscores(ReplaceInvalid(name))

safe_filename(name) == StripRight(StripLeft(CollapseUnderscores(ReplaceInvalid(name))))

\* filename = f"{uuid.uuid4().hex}_{safe_filename}"
GeneratedName(token, name) == [token |-> token, safe |-> safe_filename(name)]

\* path = f"uploads/{filename}"
StoragePath(token, name) == [dir |-> "uploads", filename |-> GeneratedName(token, name)]

-----------------------------------------------------------------------------
(* upload_single_file *)

HTTPException(status, detail) == [exc |-> TRUE, status |-> status, detail |-> detail]

\* no test of the declared size
DeclaredTooLarge_Never(file) == FALSE

\* the declared-size test made before any read
DeclaredTooLarge(file) ==
    file.size # NoSize /\ file.size # 0 /\ file.size > MAX_FILE_SIZE

\* the running-total test with the ceiling itself counted as over it
RunningTotalTooLarge_Inclusive(total_size) == total_size >= MAX_FILE_SIZE

\* the test made on the running total after each chunk
RunningTotalTooLarge(total_size) == total_size > MAX_FILE_SIZE

\* while chunk := await file.read(chunk_size): ...
\* remaining: bytes the stream still holds; the result is the loop's exit
RECURSIVE ReadLoop(_, _, _)
ReadLoop(remaining, total_size, reads) ==
    LET chunk == IF remaining < chunk_size THEN remaining ELSE chunk_size IN
    IF chunk = 0
    THEN [too_large |-> FALSE, total_size |-> total_size, reads |-> reads + 1]
    ELSE IF RunningTotalTooLarge(total_size + chunk)
    THEN [too_large |-> TRUE, total_size |-> total_size + chunk, reads |-> reads + 1]
    ELSE ReadLoop(remaining - chunk, total_size + chunk, reads + 1)

\* upload_single_file without its empty-body test
ContentsEmpty_Never(total_size) == FALSE

\* if not contents
ContentsEmpty(total_size) == total_size = 0

\* the loop's exit for each stream length the model submits
ReadStream == [n \in StreamLens |-> ReadLoop(n, 0, 0)]

\* the sanitized name stored in place of the client's
StoredFilename_Sanitized(file) == safe_filename(file.filename)

\* the name stored in the registry entry
StoredFilename(file) == file.filename

\* share_links[share_id] = {...}
StoreMapping(links, share_id, entry) ==
    [s \in DOMAIN links \cup {share_id} |-> IF s = share_id THEN entry ELSE links[s]]

\* What supabase.storage.upload does with upsert false: a path the bucket
\* already holds is refused whatever else the call would have done
PutResult(put, path, objs) == IF put = "ok" /\ path \in objs THEN "raises" ELSE put

\* the upload counted as failed only when the result carries an error field
PutFailed_IgnoresRaise(result) == result = "error_field"

\* the upload counted as failed only when the call raises
PutFailed_IgnoresErrorField(result) == result = "raises"

\* the call raised (except Exception) or the result carries an error field
PutFailed(result) == result \in {"raises", "error_field"}

\* try: public_url = get_public_url(path) except: public_url = None
PublicUrl(url, path) == IF url = "ok" THEN Url(path) ELSE NoUrl

\* The whole function. token, share_id: the values uuid4 and the md5 prefix
\* take in this call; put, url: what the storage calls do in this call.
\* Yields the response (a dict or an HTTPException), the registry and
\* bucket after the call, the storage calls issued with what they did, the
\* reads made and the share id given to an entry.
upload_single_file(file, token, share_id, put, url, links, objs) ==
    LET loop == ReadStream[file.stream]
        path == StoragePath(token, file.filename)
        result == PutResult(put, path, objs)
        stored == IF result = "ok" THEN objs \cup {path} ELSE objs
        failed(status, detail, calls, reads, objs_after) ==
            [response |-> HTTPException(status, detail), share_links |-> links,
             bucket |-> objs_after, calls |-> calls, reads |-> reads,
             put |-> IF calls = <<>> THEN "none" ELSE result, url |-> "none",
             assigned |-> {}]
        public_url == PublicUrl(url, path)
        calls_ok == <<"upload", "get_public_url">>
    IN
    IF DeclaredTooLarge(file)
    THEN failed(413, "File too large", <<>>, 0, objs)
    ELSE IF loop.too_large
    THEN failed(413, "File too large", <<>>, loop.reads, objs)
    ELSE IF ContentsEmpty(loop.total_size)
    THEN failed(400, "empty file", <<>>, loop.reads, objs)
    ELSE IF PutFailed(result)
    THEN failed(500, "Upload failed", <<"upload">>, loop.reads, stored)
    ELSE [response |->
              [exc |-> FALSE, status |-> 200, ok |-> TRUE, path |-> path,
               filename |-> GeneratedName(token, file.filename),
               original_name |-> file.filename, size |-> loop.total_size,
               content_type |-> file.content_type, public_url |-> public_url,
               share_id |-> share_id],
          share_links |->
              StoreMapping(links, share_id,
                  [original_url |-> public_url, filename |-> StoredFilename(file),
                   path |-> path]),
          bucket |-> stored,
          calls |-> calls_ok,
          reads |-> loop.reads,
          put |-> result,
          url |-> url,
          assigned |-> {share_id}]

-----------------------------------------------------------------------------
(* share_router and file_router *)

\* pydantic validation of ShareLinkResponse: original_url is declared str
ShareLinkResponseValid(link_data) == link_data.original_url # NoUrl

\* GET /share/{share_id}
get_share_link(links, share_id) ==
    IF share_id \notin DOMAIN links
    THEN [status |-> 404, detail |-> "Share link not found", available |-> DOMAIN links]
    ELSE IF ~ShareLinkResponseValid(links[share_id])
    THEN [status |-> 500, detail |-> "ValidationError"]
    ELSE [status |-> 200, share_id |-> share_id,
          original_url |-> links[share_id].original_url,
          filename |-> links[share_id].filename]

\* redirect_to_file without its test for a missing URL
UrlMissing_Never(original_url) == FALSE

\* if not original_url
UrlMissing(original_url) == original_url = NoUrl

\* GET /s/{share_id}
redirect_to_file(links, share_id) ==
    IF share_id \notin DOMAIN links
    THEN [status |-> 404, detail |-> "Share link not found"]
    ELSE IF UrlMissing(links[share_id].original_url)
    THEN [status |-> 404, detail |-> "File not found"]
    ELSE [status |-> 307, location |-> links[share_id].original_url]

\* delete_file without its del statement
RemoveMapping_Keeps(links, share_id) == links

\* del share_links[share_id]
RemoveMapping(links, share_id) == [s \in DOMAIN links \ {share_id} |-> links[s]]

\* delete_file with the del statement moved before the storage call
delete_file_RemovesFirst(links, objs, share_id, remove) ==
    IF share_id \notin DOMAIN links
    THEN [response |-> [status |-> 404, detail |-> "File not found"],
          share_links |-> links, bucket |-> objs, calls |-> <<>>]
    ELSE IF remove # "ok"
    THEN [response |-> [status |-> 500, detail |-> "Delete failed"],
          share_links |-> [s \in DOMAIN links \ {share_id} |-> links[s]],
          bucket |-> objs, calls |-> <<"remove">>]
    ELSE [response |-> [status |-> 200, ok |-> TRUE, share_id |-> share_id],
          share_links |-> [s \in DOMAIN links \ {share_id} |-> links[s]],
          bucket |-> objs \ {links[share_id].path},
          calls |-> <<"remove">>]

\* DELETE /delete/{share_id}; remove: what the storage call does in this call
delete_file(links, objs, share_id, remove) ==
    IF share_id \notin DOMAIN links
    THEN [response |-> [status |-> 404, detail |-> "File not found"],
          share_links |-> links, bucket |-> objs, calls |-> <<>>]
    ELSE IF remove # "ok"
    THEN [response |-> [status |-> 500, detail |-> "Delete failed"],
          share_links |-> links, bucket |-> objs, calls |-> <<"remove">>]
    ELSE [response |-> [status |-> 200, ok |-> TRUE, share_id |-> share_id],
          share_links |-> RemoveMapping(links, share_id),
          bucket |-> objs \ {links[share_id].path},
          calls |-> <<"remove">>]

-----------------------------------------------------------------------------
(* Single requests *)

NoBatch ==
    /\ files = <<>>
    /\ task = <<>>
    /\ results = <<>>
    /\ semaphore = SEMAPHORE_SLOTS
    /\ batch_pc = "idle"
    /\ batch_calls = 0

Init ==
    /\ share_links = <<>>
    /\ bucket = {}
    /\ last = [op |-> "none"]
    /\ assigned = {}
    /\ NoBatch
    /\ deletes = <<>>

\* A registry left by an earlier upload of a file called name
EarlierPath(name) == StoragePath(1, name)
EarlierEntry(name) ==
    [original_url |-> Url(EarlierPath(name)), filename |-> name, path |-> EarlierPath(name)]

\* The files upload_single_file rejects before it draws a name or calls storage
RejectedLocally(file) ==
    \/ DeclaredTooLarge(file)
    \/ ReadStream[file.stream].too_large
    \/ ContentsEmpty(ReadStream[file.stream].total_size)

\* What the environment decides during one upload_single_file(file): the two
\* random draws and the two storage outcomes. Only the choices the call
\* reaches are enumerated.
Env(token, share_id, put, url) ==
    [token |-> token, share_id |-> share_id, put |-> put, url |-> url]

EnvChoices(file) ==
    IF RejectedLocally(file)
    THEN {Env(1, 1, "ok", "ok")}
    ELSE {Env(t, 1, p, "ok") : t \in Tokens, p \in PutOutcomes \ {"ok"}}
         \cup {Env(t, s, "ok", u) : t \in Tokens, s \in ShareIds, u \in UrlOutcomes}

\* POST /upload with a file of the set F
UploadOf(F) ==
    \E file \in F :
      \E e \in EnvChoices(file) :
        LET token == e.token
            share_id == e.share_id
            put == e.put
            url == e.url
            r == upload_single_file(file, token, share_id, put, url, share_links, bucket) IN
        /\ share_links' = r.share_links
        /\ bucket' = r.bucket
        /\ assigned' = assigned \cup r.assigned
        /\ last' = [op |-> "upload", file |-> file, response |-> r.response,
                    calls |-> r.calls, reads |-> r.reads, put |-> r.put, url |-> r.url]
        /\ UNCHANGED <<batch_vars, deletes>>

\* the files of the requests that follow one another: two that pass every
\* local test, with the same sanitized name, and one that is rejected as empty
LifecycleFiles ==
    {[filename |-> <<"a", " ">>, size |-> NoSize, content_type |-> "text/plain", stream |-> 1],
     [filename |-> <<"a">>, size |-> 1, content_type |-> "None", stream |-> 1],
     [filename |-> <<"a", " ">>, size |-> NoSize, content_type |-> "text/plain", stream |-> 0]}

Upload == UploadOf(LifecycleFiles)

\* GET /share/{share_id}
Describe ==
    \E share_id \in ShareIds :
        /\ last' = [op |-> "describe", share_id |-> share_id,
                    response |-> get_share_link(share_links, share_id),
                    calls |-> <<>>]
        /\ UNCHANGED <<share_links, bucket, assigned, batch_vars, deletes>>

\* GET /s/{share_id}
Resolve ==
    \E share_id \in ShareIds :
        /\ last' = [op |-> "resolve", share_id |-> share_id,
                    response |-> redirect_to_file(share_links, share_id),
                    calls |-> <<>>]
        /\ UNCHANGED <<share_links, bucket, assigned, batch_vars, deletes>>

\* DELETE /delete/{share_id}
Delete ==
    \E share_id \in ShareIds, remove \in RemoveOutcomes :
        LET r == delete_file(share_links, bucket, share_id, remove) IN
        /\ share_links' = r.share_links
        /\ bucket' = r.bucket
        /\ last' = [op |-> "delete", share_id |-> share_id, remove |-> remove,
                    response |-> r.response, calls |-> r.calls]
        /\ UNCHANGED <<assigned, batch_vars, deletes>>

Next == Upload \/ Describe \/ Resolve \/ Delete

Spec == Init /\ [][Next]_vars

-----------------------------------------------------------------------------
(* One upload of any file, into an empty registry or one left by an earlier
   upload of a file with the same sanitized name *)

InitUpload ==
    /\ \/ share_links = <<>> /\ bucket = {} /\ assigned = {}
       \/ /\ share_links = <<EarlierEntry(<<"a">>)>>
          /\ bucket = {EarlierPath(<<"a">>)}
          /\ assigned = {1}
    /\ last = [op |-> "none"]
    /\ NoBatch
    /\ deletes = <<>>

UploadAny == last.op = "none" /\ UploadOf(UploadFiles)

NextUpload == UploadAny

SpecUpload == InitUpload /\ [][NextUpload]_vars

-----------------------------------------------------------------------------
(* upload_multiple *)

\* the files a batch of the model is made of: one that passes every local
\* test, and two that upload_single_file rejects locally (an empty one and
\* one declared too large)
BatchFile(name, size, stream) ==
    [filename |-> name, size |-> size, content_type |-> "text/plain", stream |-> stream]

LiveFiles == {BatchFile(<<"a">>, 1, 1)}

RejectedFiles ==
    {BatchFile(<<"a", " ">>, NoSize, 0), BatchFile(<<"a", " ">>, MAX_FILE_SIZE + 1, 1)}

RECURSIVE SeqsUpTo(_, _)
SeqsUpTo(S, n) ==
    IF n = 0 THEN {<<>>}
    ELSE LET shorter == SeqsUpTo(S, n - 1) IN
         shorter \cup {Append(q, x) : q \in shorter, x \in S}

Pad(k, file) == [i \in 1..k |-> file]

\* Submitted lists: every list of at most MaxFreeBatch files; one file
\* followed by as many rejected files as the semaphore has slots; exactly
\* MAX_BATCH_FILES rejected files; and longer lists.
Batches ==
    LET heads == SeqsUpTo(LiveFiles \cup RejectedFiles, MaxFreeBatch) IN
    heads
    \cup {<<f>> \o Pad(SEMAPHORE_SLOTS, r) : f \in LiveFiles \cup RejectedFiles, r \in RejectedFiles}
    \cup {Pad(MAX_BATCH_FILES, r) : r \in RejectedFiles}
    \cup {h \o Pad(MAX_BATCH_FILES, r) : h \in heads \ {<<>>}, r \in RejectedFiles}

\* the size guard with the cap itself rejected
TooManyFiles_Inclusive(fs) == Len(fs) >= MAX_BATCH_FILES

\* if len(files) > 20
TooManyFiles(fs) == Len(fs) > MAX_BATCH_FILES

\* a semaphore that admits one task more than it has slots
SemaphoreFree_OneMore(value) == value >= 0

\* asyncio.Semaphore.acquire proceeds when the value is positive
SemaphoreFree(value) == value > 0

\* isinstance(result, Exception)
IsException(result) == result.exc

\* the failed item built from the first file instead of file i
FailedItem_FirstFile(fs, i, result) ==
    [filename |-> fs[1].filename,
     error |-> [status |-> result.status, detail |-> result.detail]]

\* the item appended to failed_uploads for request index i
FailedItem(fs, i, result) ==
    [filename |-> fs[i].filename,
     error |-> [status |-> result.status, detail |-> result.detail]]

\* the results walked from the last file to the first
RequestOrder_Reversed(fs) == [i \in 1..Len(fs) |-> Len(fs) + 1 - i]

\* gather returns the results in the order of its arguments, and
\* enumerate(results) walks them from the first
RequestOrder(fs) == [i \in 1..Len(fs) |-> i]

\* for i, result in enumerate(results): ... and the returned dict
Aggregate(fs, res) ==
    LET idx == RequestOrder(fs)
        bad == SelectSeq(idx, LAMBDA i : IsException(res[i]))
        good == SelectSeq(idx, LAMBDA i : ~IsException(res[i]))
        successful_uploads == [j \in 1..Len(good) |-> res[good[j]]]
        failed_uploads == [j \in 1..Len(bad) |-> FailedItem(fs, bad[j], res[bad[j]])]
    IN [status |-> 200,
        successful_uploads |-> successful_uploads,
        failed_uploads |-> failed_uploads,
        total_files |-> Len(fs),
        successful_count |-> Len(successful_uploads),
        failed_count |-> Len(failed_uploads)]

Pending == [exc |-> FALSE, status |-> 0]

InitBatch ==
    /\ share_links = <<EarlierEntry(<<"1">>)>>
    /\ bucket = {EarlierPath(<<"1">>)}
    /\ assigned = {1}
    /\ last = [op |-> "none"]
    /\ files \in Batches
    /\ task = [i \in 1..Len(files) |-> "new"]
    /\ results = [i \in 1..Len(files) |-> Pending]
    /\ semaphore = SEMAPHORE_SLOTS
    /\ batch_pc = "received"
    /\ batch_calls = 0
    /\ deletes = <<>>

\* POST /upload-multiple up to gather: the size guard, the semaphore and the tasks
BatchStart ==
    /\ batch_pc = "received"
    /\ IF TooManyFiles(files)
       THEN /\ batch_pc' = "returned"
            /\ last' = [op |-> "upload_multiple",
                        response |-> [status |-> 400, detail |-> "Too many files"]]
            /\ UNCHANGED task
       ELSE /\ batch_pc' = "gathering"
            /\ task' = [i \in 1..Len(files) |-> "waiting"]
            /\ UNCHANGED last
    /\ UNCHANGED <<share_links, bucket, assigned, files, results, semaphore, batch_calls,
                   deletes>>

\* async with semaphore: the longest-waiting task takes a free slot (gather
\* starts the tasks in list order and the semaphore wakes its waiters in the
\* order they arrived)
Admit(i) ==
    /\ batch_pc = "gathering"
    /\ task[i] = "waiting"
    /\ \A j \in 1..(i - 1) : task[j] # "waiting"
    /\ SemaphoreFree(semaphore)
    /\ semaphore' = semaphore - 1
    /\ task' = [task EXCEPT ![i] = "active"]
    /\ UNCHANGED <<share_links, bucket, last, assigned, files, results, batch_pc, batch_calls,
                   deletes>>

\* a slot given back only by a task whose upload returned a result
Release_OnlyOnSuccess(value, response) ==
    IF response.exc THEN value ELSE value + 1

\* leaving "async with semaphore" gives the slot back, whether
\* upload_single_file returned or raised
Release(value, response) == value + 1

\* return await upload_single_file(file), then the slot is released.
\* The awaits of upload_single_file are its file.read calls, which touch
\* only the task's own file; the storage calls are synchronous and nothing
\* is awaited between the last read and the return, so the registry and
\* the bucket are read and written in one step.
Run(i) ==
    /\ batch_pc = "gathering"
    /\ task[i] = "active"
    /\ \E e \in EnvChoices(files[i]) :
        LET r == upload_single_file(files[i], e.token, e.share_id, e.put, e.url,
                                    share_links, bucket) IN
        /\ share_links' = r.share_links
        /\ bucket' = r.bucket
        /\ assigned' = assigned \cup r.assigned
        /\ results' = [results EXCEPT ![i] = r.response]
        /\ batch_calls' = batch_calls + Len(r.calls)
        /\ semaphore' = Release(semaphore, r.response)
    /\ task' = [task EXCEPT ![i] = "done"]
    /\ UNCHANGED <<last, files, batch_pc, deletes>>

\* gather returns when every task is done; the handler builds its result
BatchReturn ==
    /\ batch_pc = "gathering"
    /\ \A i \in 1..Len(files) : task[i] = "done"
    /\ batch_pc' = "returned"
    /\ last' = [op |-> "upload_multiple", response |-> Aggregate(files, results)]
    /\ UNCHANGED <<share_links, bucket, assigned, files, task, results, semaphore,
                   batch_calls, deletes>>

NextBatch ==
    \/ BatchStart
    \/ \E i \in 1..Len(files) : Admit(i)
    \/ \E i \in 1..Len(files) : Run(i)
    \/ BatchReturn

SpecBatch == InitBatch /\ [][NextBatch]_vars

\* The event loop runs a task that is ready, and every stream read and
\* storage call returns: a step of the batch that can be taken is taken.
FairSpecBatch == InitBatch /\ [][NextBatch]_vars /\ WF_vars(NextBatch)

-----------------------------------------------------------------------------
(* The sanitization statements of upload_single_file on their own *)

\* characters of a client filename: word characters, the three other kept
\* characters and two that the pattern replaces
FilenameChars == WordChars \cup {"-", ".", " ", "/"}

Filenames == SeqsUpTo(FilenameChars, MaxNameLen)

InitSanitize ==
    /\ share_links = <<>>
    /\ bucket = {}
    /\ assigned = {}
    /\ last \in [op : {"filename"}, name : Filenames]
    /\ NoBatch
    /\ deletes = <<>>

\* safe_filename = ...; filename = f"{uuid4().hex}_{safe_filename}"; path = ...
Sanitize ==
    /\ last.op = "filename"
    /\ \E token \in Tokens :
        last' = [op |-> "sanitize", name |-> last.name,
                 safe |-> safe_filename(last.name),
                 path |-> StoragePath(token, last.name)]
    /\ UNCHANGED <<share_links, bucket, assigned, batch_vars, deletes>>

NextSanitize == Sanitize

SpecSanitize == InitSanitize /\ [][NextSanitize]_vars

-----------------------------------------------------------------------------
(* Delete requests in flight: delete_file statement by statement *)

NoPath == [dir |-> "None"]

\* a request as it arrives; remove: what the storage call does in this request
DeleteRequest(share_id, remove) ==
    [share_id |-> share_id, remove |-> remove, pc |-> "check", file_path |-> NoPath,
     response |-> [status |-> 0], calls |-> <<>>]

DeleteRequests ==
    LET arrivals == {DeleteRequest(s, x) : s \in ShareIds, x \in RemoveOutcomes}
    IN SeqsUpTo(arrivals, MaxDeletes) \ {<<>>}

\* registries left by earlier uploads, under the share ids 1 and 2
InitialRegistries ==
    { <<EarlierEntry(<<"a">>)>>, <<EarlierEntry(<<"a">>), EarlierEntry(<<"1">>)>> }

\* a handler that gives up control while the storage remove is under way
Awaits_StorageCall(pc) == pc = "remove"

\* delete_file has no await: supabase's remove is a plain blocking call, so
\* the event loop runs no other handler before the function returns
Awaits(pc) == FALSE

\* One statement group of delete_file for request d:
\*   check:  the membership test, link_data and file_path
\*   remove: the storage call and the test of its result
\*   del:    del share_links[share_id] and the return, or its KeyError
Statement(links, objs, d) ==
    CASE d.pc = "check" ->
            IF d.share_id \notin DOMAIN links
            THEN [share_links |-> links, bucket |-> objs,
                  d |-> [d EXCEPT !.pc = "done",
                                  !.response = [status |-> 404, detail |-> "File not found"]]]
            ELSE [share_links |-> links, bucket |-> objs,
                  d |-> [d EXCEPT !.pc = "remove",
                                  !.file_path = links[d.share_id].path]]
      [] d.pc = "remove" ->
            IF d.remove # "ok"
            THEN [share_links |-> links, bucket |-> objs,
                  d |-> [d EXCEPT !.pc = "done",
                                  !.calls = Append(d.calls, "remove"),
                                  !.response = [status |-> 500, detail |-> "Delete failed"]]]
            ELSE [share_links |-> links, bucket |-> objs \ {d.file_path},
                  d |-> [d EXCEPT !.pc = "del",
                                  !.calls = Append(d.calls, "remove")]]
      [] d.pc = "del" ->
            IF d.share_id \in DOMAIN links
            THEN [share_links |-> RemoveMapping(links, d.share_id), bucket |-> objs,
                  d |-> [d EXCEPT !.pc = "done",
                                  !.response = [status |-> 200, ok |-> TRUE,
                                                share_id |-> d.share_id]]]
            ELSE [share_links |-> links, bucket |-> objs,
                  d |-> [d EXCEPT !.pc = "done",
                                  !.response = [status |-> 404, detail |-> "File not found"]]]

\* the statements a request runs from its position until it awaits or returns
RECURSIVE RunToAwait(_, _, _)
RunToAwait(links, objs, d) ==
    LET after == Statement(links, objs, d) IN
    IF after.d.pc = "done" \/ Awaits(after.d.pc)
    THEN after
    ELSE RunToAwait(after.share_links, after.bucket, after.d)

InitDelete ==
    /\ share_links \in InitialRegistries
    /\ bucket = {share_links[s].path : s \in DOMAIN share_links}
    /\ assigned = DOMAIN share_links
    /\ last = [op |-> "none"]
    /\ NoBatch
    /\ deletes \in DeleteRequests

\* the event loop runs request r from where it stands
DeleteStep(r) ==
    /\ deletes[r].pc # "done"
    /\ LET after == RunToAwait(share_links, bucket, deletes[r]) IN
        /\ share_links' = after.share_links
        /\ bucket' = after.bucket
        /\ deletes' = [deletes EXCEPT ![r] = after.d]
        /\ last' = IF after.d.pc = "done"
                   THEN [op |-> "delete", share_id |-> after.d.share_id,
                         remove |-> after.d.remove, response |-> after.d.response,
                         calls |-> after.d.calls]
                   ELSE last
    /\ UNCHANGED <<assigned, batch_vars>>

NextDelete == \E r \in 1..Len(deletes) : DeleteStep(r)

SpecDelete == InitDelete /\ [][NextDelete]_vars

-----------------------------------------------------------------------------
(* Properties of single uploads *)

IsUpload(l) == l.op = "upload"
PutIssued(l) == \E k \in 1..Len(l.calls) : l.calls[k] = "upload"

\* C1: an upload whose stream holds more than MAX_FILE_SIZE bytes fails with
\* 413 whatever size was declared, issues no storage upload and leaves the
\* registry as it was; a stream of exactly MAX_FILE_SIZE bytes whose declared
\* size is absent, zero, understated or correct is not answered 413.
C1_StreamOverCeilingRejected ==
    [][IsUpload(last') =>
        /\ last'.file.stream > MAX_FILE_SIZE =>
              /\ last'.response.exc
              /\ last'.response.status = 413
              /\ ~PutIssued(last')
              /\ share_links' = share_links
              /\ bucket' = bucket
        /\ (last'.file.stream = MAX_FILE_SIZE /\ last'.file.size <= last'.file.stream) =>
              last'.response.status # 413
      ]_vars

\* C1 witness: a stream one byte over the ceiling with no declared size was
\* answered 413
C1_Witness ==
    /\ IsUpload(last)
    /\ last.file.stream = MAX_FILE_SIZE + 1
    /\ last.file.size = NoSize
    /\ last.response.status = 413

\* C2 as stated: an upload whose stream delivers zero bytes is answered 400
\* (empty file) for every declared size, content type and filename, and
\* issues no storage upload.
C2_EmptyAlways400 ==
    (IsUpload(last) /\ last.file.stream = 0) =>
        last.response.status = 400 /\ ~PutIssued(last)

\* C2 amended: an upload whose stream delivers zero bytes and whose declared
\* size is absent or does not exceed MAX_FILE_SIZE is answered 400 (empty
\* file); with a declared size over MAX_FILE_SIZE it is answered 413; in both
\* cases no storage upload is issued.
C2_EmptyRejected ==
    (IsUpload(last) /\ last.file.stream = 0) =>
        /\ last.response.exc
        /\ ~PutIssued(last)
        /\ last.file.size <= MAX_FILE_SIZE =>
              last.response.status = 400 /\ last.response.detail = "empty file"
        /\ last.file.size > MAX_FILE_SIZE => last.response.status = 413

\* C2 witness: an empty stream with a declared content type was answered 400
C2_Witness ==
    /\ IsUpload(last)
    /\ last.file.stream = 0
    /\ last.file.content_type = "text/plain"
    /\ last.response.status = 400

\* C3: after a successful upload, with or without a public URL, describing
\* the returned share_id answers 200 with the client's original filename.
C3_DescribeAfterUpload ==
    (IsUpload(last) /\ ~last.response.exc) =>
        LET d == get_share_link(share_links, last.response.share_id) IN
        d.status = 200 /\ d.filename = last.file.filename

\* C4: two successful uploads of one batch with the same original filename
\* have distinct storage paths and distinct share ids, and the registry
\* maps each share id to its own upload's path.
C4_SameNameUploadsDistinct ==
    \A i \in 1..Len(files) : \A j \in 1..Len(files) :
        (/\ i < j
         /\ task[i] = "done" /\ task[j] = "done"
         /\ ~results[i].exc /\ ~results[j].exc
         /\ files[i].filename = files[j].filename) =>
            /\ results[i].path # results[j].path
            /\ results[i].share_id # results[j].share_id
            /\ results[i].share_id \in DOMAIN share_links
            /\ results[j].share_id \in DOMAIN share_links
            /\ share_links[results[i].share_id].path = results[i].path
            /\ share_links[results[j].share_id].path = results[j].path

-----------------------------------------------------------------------------
(* Properties of delete and resolve *)

IsDelete(l) == l.op = "delete"

\* C5: deleting a share id that is not in the registry answers 404 and
\* issues no storage call; deleting one that is, with a storage remove that
\* succeeds, answers 200 and removes the entry, so that describing the share
\* id right after answers 404.
C5_DeleteRemovesOrNotFound ==
    [][IsDelete(last') =>
        /\ last'.share_id \notin DOMAIN share_links =>
              /\ last'.response.status = 404
              /\ last'.calls = <<>>
              /\ share_links' = share_links
              /\ bucket' = bucket
        /\ (last'.share_id \in DOMAIN share_links /\ last'.remove = "ok") =>
              /\ last'.response.status = 200
              /\ last'.share_id \notin DOMAIN share_links'
              /\ get_share_link(share_links', last'.share_id).status = 404
      ]_vars

\* C5 witness: a delete was answered 200 and its share id is gone
C5_Witness ==
    /\ IsDelete(last)
    /\ last.response.status = 200
    /\ last.share_id \notin DOMAIN share_links
    /\ share_links # <<>>

\* C6: when the storage remove of a delete on a present share id raises or
\* returns an error field, the delete answers 500, the registry and its
\* entry are unchanged, and a delete of the same id with a working storage
\* then answers 200.
C6_FailedDeleteKeepsEntry ==
    [][(/\ IsDelete(last')
        /\ last'.share_id \in DOMAIN share_links
        /\ last'.remove \in {"raises", "error_field"}) =>
            /\ last'.response.status = 500
            /\ share_links' = share_links
            /\ delete_file(share_links', bucket', last'.share_id, "ok").response.status = 200
      ]_vars

\* C6 witness: a delete whose storage remove returned an error field was
\* answered 500 and the entry is still there
C6_Witness ==
    /\ IsDelete(last)
    /\ last.remove = "error_field"
    /\ last.response.status = 500
    /\ last.share_id \in DOMAIN share_links

\* C10: resolve answers 404 when the share id is absent and when its entry
\* has no public URL; otherwise it redirects to the stored public URL; it
\* never answers anything else and never redirects to an absent URL.
C10_ResolveNotFoundOrRedirect ==
    last.op = "resolve" =>
        LET sid == last.share_id
            r == last.response
        IN
        /\ sid \notin DOMAIN share_links => r.status = 404
        /\ (sid \in DOMAIN share_links /\ share_links[sid].original_url = NoUrl) =>
              r.status = 404
        /\ (sid \in DOMAIN share_links /\ share_links[sid].original_url # NoUrl) =>
              r.status = 307 /\ r.location = share_links[sid].original_url
        /\ r.status \in {404, 307}
        /\ r.status = 307 => r.location # NoUrl

\* C10 witness: resolve of an entry without public URL was answered 404
C10_Witness ==
    /\ last.op = "resolve"
    /\ last.share_id \in DOMAIN share_links
    /\ share_links[last.share_id].original_url = NoUrl
    /\ last.response.status = 404

-----------------------------------------------------------------------------
(* Properties of upload_multiple *)

Active == {i \in 1..Len(files) : task[i] = "active"}
Failed == {i \in 1..Len(files) : task[i] = "done" /\ results[i].exc}
Returned200 == batch_pc = "returned" /\ last.response.status = 200

\* C7: at no time are more than 5 tasks of a batch inside the semaphore
\* (admitted and not yet finished with upload_single_file).
C7_AtMostFiveInFlight ==
    /\ Cardinality(Active) <= 5
    /\ Cardinality(Active) = SEMAPHORE_SLOTS - semaphore

\* C7 witness: five tasks are inside the semaphore, one of them about to
\* call storage, and another task waits
C7_Witness ==
    /\ Cardinality(Active) = 5
    /\ \E i \in Active : files[i] \in LiveFiles
    /\ \E i \in 1..Len(files) : task[i] = "waiting"

\* C8: the result of a batch has successful_count + failed_count =
\* total_files = number of files submitted, each count is the length of its
\* list, and the failed files appear in failed_uploads under their own
\* original filenames (as many items per filename as files that failed).
C8_BatchCountsAddUp ==
    Returned200 =>
        LET r == last.response IN
        /\ r.successful_count + r.failed_count = r.total_files
        /\ r.total_files = Len(files)
        /\ r.successful_count = Len(r.successful_uploads)
        /\ r.failed_count = Len(r.failed_uploads)
        /\ r.failed_count = Cardinality(Failed)
        /\ \A i \in Failed :
              Cardinality({j \in 1..Len(r.failed_uploads) :
                              r.failed_uploads[j].filename = files[i].filename})
              = Cardinality({k \in Failed : files[k].filename = files[i].filename})

\* C8 witness: a returned batch with a success and a failure
C8_Witness ==
    /\ Returned200
    /\ last.response.successful_count > 0
    /\ last.response.failed_count > 0

\* C9: a batch of more than 20 files is answered 400 without starting any
\* task: no file is read, no storage call is made, the registry and bucket
\* stay as they were; a batch of exactly 20 files is not answered 400.
C9_TooManyFilesRejected ==
    /\ [](Len(files) > 20 =>
            /\ batch_pc # "gathering"
            /\ \A i \in 1..Len(files) : task[i] = "new" /\ results[i] = Pending
            /\ batch_calls = 0
            /\ batch_pc = "returned" => last.response.status = 400)
    /\ []((Len(files) = 20 /\ batch_pc = "returned") => last.response.status = 200)
    /\ [][Len(files) > 20 => share_links' = share_links /\ bucket' = bucket]_vars

\* C9 witness: a batch of 21 files over a non-empty registry was answered 400
C9_Witness ==
    /\ Len(files) = 21
    /\ batch_pc = "returned"
    /\ last.response.status = 400
    /\ share_links # <<>>

\* a batch of exactly 20 files has returned its result
C9_TwentyAccepted == Len(files) = 20 /\ Returned200

\* the storage paths of two successful same-name uploads of a batch differ
C4_PathsDistinct ==
    \A i \in 1..Len(files) : \A j \in 1..Len(files) :
        (i < j /\ task[i] = "done" /\ task[j] = "done"
           /\ ~results[i].exc /\ ~results[j].exc) =>
            results[i].path # results[j].path

-----------------------------------------------------------------------------
(* Properties of the registry across uploads and deletes *)

\* C11: every entry of the registry has a storage path that the bucket
\* holds (an upload to it was accepted and no remove of it has succeeded
\* since); an entry appears or changes only in the step of an upload whose
\* storage upload was accepted, and its path is the one just stored.
C11_EntriesBackedByStorage ==
    /\ [](\A s \in DOMAIN share_links : share_links[s].path \in bucket)
    /\ [][\A s \in DOMAIN share_links' :
            (s \notin DOMAIN share_links \/ share_links'[s] # share_links[s]) =>
                /\ IsUpload(last')
                /\ last'.put = "ok"
                /\ ~last'.response.exc
                /\ share_links'[s].path = last'.response.path
                /\ share_links'[s].path \notin bucket
                /\ share_links'[s].path \in bucket'
      ]_vars

\* C11 witness: an upload succeeded after an earlier upload was deleted:
\* both share ids have been given out, one entry and its object remain
C11_Witness ==
    /\ IsUpload(last)
    /\ ~last.response.exc
    /\ assigned = ShareIds
    /\ Cardinality(DOMAIN share_links) = 1
    /\ Cardinality(bucket) = 1
    /\ share_links[last.response.share_id].path \in bucket

\* the state part of C11 alone, which the uploads of a batch keep as well
C11_EntriesInBucket ==
    \A s \in DOMAIN share_links : share_links[s].path \in bucket

\* C12: an upload never gives its entry a share id that an entry holds, nor
\* one that was given to an entry deleted since.
C12_ShareIdsNeverReused ==
    [][(IsUpload(last') /\ share_links' # share_links) =>
          last'.response.share_id \notin assigned]_vars

\* C18: no two entries of the registry have the same storage path, and the
\* path recorded under a share id stays the same for as long as the
\* registry holds that share id.
C18_PathsUniqueAndStable ==
    /\ [](\A s \in DOMAIN share_links : \A t \in DOMAIN share_links :
            s # t => share_links[s].path # share_links[t].path)
    /\ [][\A s \in DOMAIN share_links \cap DOMAIN share_links' :
            share_links'[s].path = share_links[s].path]_vars

\* the first half of C18 alone: entries have pairwise distinct paths
C18_PathsUnique ==
    \A s \in DOMAIN share_links : \A t \in DOMAIN share_links :
        s # t => share_links[s].path # share_links[t].path

\* C20: describing a share id the registry does not hold is answered the
\* same whatever the registry holds: the answer over the current registry
\* equals the answer over the empty registry.
C20_NotFoundSameForAllRegistries ==
    \A s \in ShareIds \ DOMAIN share_links :
        get_share_link(share_links, s) = get_share_link(<<>>, s)

-----------------------------------------------------------------------------
(* Further properties of single uploads *)

\* C14: an upload whose declared size is present and over MAX_FILE_SIZE
\* fails with 413 without a single read of the stream and without a storage
\* call, whatever the stream holds.
C14_DeclaredTooLargeUnread ==
    (IsUpload(last) /\ last.file.size # NoSize /\ last.file.size > MAX_FILE_SIZE) =>
        /\ last.response.exc
        /\ last.response.status = 413
        /\ last.reads = 0
        /\ last.calls = <<>>
        /\ last.put = "none"

\* C14 witness: a declared size over the ceiling on a one-byte stream was
\* answered 413 with no read
C14_Witness ==
    /\ IsUpload(last)
    /\ last.file.size = MAX_FILE_SIZE + 1
    /\ last.file.stream = 1
    /\ last.response.status = 413
    /\ last.reads = 0

\* C16: an upload that fails leaves the registry and the share ids given
\* out as they were; when its storage upload raises or returns an error
\* field it is answered 500 and goes no further; the registry changes only
\* in the step of an upload whose storage upload was accepted.
C16_FailedUploadLeavesRegistry ==
    [][IsUpload(last') =>
        /\ last'.response.exc =>
              share_links' = share_links /\ assigned' = assigned
        /\ last'.put \in {"raises", "error_field"} =>
              /\ last'.response.exc
              /\ last'.response.status = 500
              /\ last'.url = "none"
              /\ bucket' = bucket
        /\ share_links' # share_links =>
              last'.put = "ok" /\ ~last'.response.exc
      ]_vars

\* C16 witness: a storage upload returned an error field, the upload was
\* answered 500 and the earlier entry is still the whole registry
C16_Witness ==
    /\ IsUpload(last)
    /\ last.put = "error_field"
    /\ last.response.status = 500
    /\ share_links = <<EarlierEntry(<<"a">>)>>

\* C17: when the storage upload is accepted and get_public_url raises, the
\* upload is answered 200 with no public URL and a share id, and the
\* registry maps that share id to an entry with no public URL, the client's
\* filename and the path just stored.
C17_UrlFailureStillSucceeds ==
    (IsUpload(last) /\ last.put = "ok" /\ last.url = "raises") =>
        LET r == last.response IN
        /\ ~r.exc
        /\ r.status = 200
        /\ r.public_url = NoUrl
        /\ r.share_id \in ShareIds
        /\ r.share_id \in DOMAIN share_links
        /\ share_links[r.share_id] =
              [original_url |-> NoUrl, filename |-> last.file.filename, path |-> r.path]
        /\ r.path \in bucket
        /\ last.calls = <<"upload", "get_public_url">>

\* C17 witness: an upload of "a " whose get_public_url raised was answered
\* 200 and its entry has no public URL
C17_Witness ==
    /\ IsUpload(last)
    /\ last.url = "raises"
    /\ last.file.filename = <<"a", " ">>
    /\ last.response.status = 200
    /\ share_links[last.response.share_id].original_url = NoUrl

-----------------------------------------------------------------------------
(* Properties of the sanitization *)

AllowedChars == WordChars \cup {"-", "_", "."}

\* the positions of name whose character is kept as it is
KeptPositions(name) ==
    SelectSeq([i \in 1..Len(name) |-> i],
              LAMBDA i : name[i] \in AllowedChars \ {"_"})

\* the kept characters in their order, with one "_" between two of them
\* that are not neighbours in name
RECURSIVE JoinKept(_, _, _)
JoinKept(name, pos, k) ==
    IF k > Len(pos) THEN <<>>
    ELSE (IF k > 1 /\ pos[k] > pos[k - 1] + 1 THEN <<"_">> ELSE <<>>)
         \o <<name[pos[k]]>> \o JoinKept(name, pos, k + 1)

\* C19: for every filename the sanitization yields the filename with each
\* character outside letters, digits, "-", "_", "." replaced by "_", runs of
\* "_" collapsed and leading and trailing "_" stripped: only allowed
\* characters, no two "_" in a row, no "_" at either end, empty when no
\* character of the filename is allowed; the storage path is formed all the
\* same from the directory, the token and that name.
C19_SanitizedName ==
    last.op = "sanitize" =>
        LET name == last.name
            safe == last.safe
        IN
        /\ safe = JoinKept(name, KeptPositions(name), 1)
        /\ \A i \in 1..Len(safe) : safe[i] \in AllowedChars
        /\ \A i \in 1..(Len(safe) - 1) : ~(safe[i] = "_" /\ safe[i + 1] = "_")
        /\ safe # <<>> => safe[1] # "_" /\ safe[Len(safe)] # "_"
        /\ (\A i \in 1..Len(name) : name[i] \notin AllowedChars) => safe = <<>>
        /\ last.path.dir = "uploads"
        /\ last.path.filename.token \in Tokens
        /\ last.path.filename.safe = safe

\* C19 witness: a filename with an invalid character and a "_" in a row
\* inside was sanitized to its two kept characters around one "_"
C19_Witness ==
    /\ last.op = "sanitize"
    /\ last.name = <<"a", " ", "_", "1">>
    /\ last.safe = <<"a", "_", "1">>

\* a filename that ends with an invalid character lost its last character
C19_Stripped ==
    /\ last.op = "sanitize"
    /\ last.name = <<"_", "a", ".", "/">>
    /\ last.safe = <<"a", ".">>

\* a filename of invalid characters only was sanitized to the empty name
C19_AllInvalid ==
    /\ last.op = "sanitize"
    /\ last.name = <<" ", "/">>
    /\ last.safe = <<>>

-----------------------------------------------------------------------------
(* Further properties of upload_multiple *)

Succeeded == {i \in 1..Len(files) : task[i] = "done" /\ ~results[i].exc}

\* C13: a batch always returns: every file of an accepted batch ends with
\* an outcome, a task that ends gives its slot back whether it failed or
\* not, and the end of a task changes no other task's state or outcome.
C13_BatchCompletes ==
    /\ <>(batch_pc = "returned")
    /\ []((batch_pc = "returned" /\ ~TooManyFiles(files)) =>
            \A i \in 1..Len(files) : task[i] = "done" /\ results[i] # Pending)
    /\ [][\A i \in 1..Len(files) :
            (task[i] = "active" /\ task'[i] = "done") =>
                /\ semaphore' = semaphore + 1
                /\ \A j \in 1..Len(files) :
                      j # i => task'[j] = task[j] /\ results'[j] = results[j]
      ]_vars

\* C13 witness: a batch of more than five files whose first five all
\* failed has returned with an outcome for the sixth
C13_Witness ==
    /\ Returned200
    /\ Len(files) > 5
    /\ Len(files) <= MAX_BATCH_FILES
    /\ \A i \in 1..5 : results[i].exc
    /\ task[6] = "done"

\* C15: in the result of a batch the k-th failed file in request order is
\* the k-th item of failed_uploads, under its own filename and error, and
\* the k-th successful file in request order is the k-th item of
\* successful_uploads.
C15_ListsInRequestOrder ==
    Returned200 =>
        LET r == last.response IN
        /\ Len(r.failed_uploads) = Cardinality(Failed)
        /\ Len(r.successful_uploads) = Cardinality(Succeeded)
        /\ \A i \in Failed :
              LET k == Cardinality({j \in Failed : j <= i}) IN
              /\ r.failed_uploads[k].filename = files[i].filename
              /\ r.failed_uploads[k].error.status = results[i].status
              /\ r.failed_uploads[k].error.detail = results[i].detail
        /\ \A i \in Succeeded :
              LET k == Cardinality({j \in Succeeded : j <= i}) IN
              r.successful_uploads[k] = results[i]

\* C15 witness: a returned batch of two failed files with different
\* filenames and different errors
C15_Witness ==
    /\ Returned200
    /\ Len(files) = 2
    /\ Failed = {1, 2}
    /\ files[1].filename # files[2].filename
    /\ results[1].status # results[2].status

\* the second task of a batch ended while the first was still running
C15_OutOfOrder ==
    /\ Len(files) >= 2
    /\ task[1] = "active"
    /\ task[2] = "done"

-----------------------------------------------------------------------------
(* Properties of concurrent deletes *)

DeletesOf(s) == {r \in 1..Len(deletes) : deletes[r].share_id = s}

\* C21: of two or more delete requests in flight for a share id that was
\* in the registry, all with a storage remove that succeeds, exactly one is
\* answered 200 and every other 404, exactly one storage remove is issued
\* and none is answered 500; no request is ever left between its lookup and
\* its removal while another runs: each runs as the whole handler does on
\* the registry and bucket it starts from.
C21_ConcurrentDeletesSerialised ==
    /\ [](\A s \in assigned :
            (/\ Cardinality(DeletesOf(s)) >= 2
             /\ \A r \in DeletesOf(s) : deletes[r].pc = "done" /\ deletes[r].remove = "ok") =>
                /\ Cardinality({r \in DeletesOf(s) : deletes[r].response.status = 200}) = 1
                /\ \A r \in DeletesOf(s) : deletes[r].response.status \in {200, 404}
                /\ Cardinality({r \in DeletesOf(s) : deletes[r].calls # <<>>}) = 1
                /\ \A r \in DeletesOf(s) : Len(deletes[r].calls) <= 1
                /\ s \notin DOMAIN share_links)
    /\ [](\A r \in 1..Len(deletes) : deletes[r].pc \in {"check", "done"})
    /\ [][\A r \in 1..Len(deletes) :
            deletes'[r] # deletes[r] =>
                LET whole == delete_file(share_links, bucket, deletes[r].share_id,
                                         deletes[r].remove) IN
                /\ deletes'[r].pc = "done"
                /\ deletes'[r].response = whole.response
                /\ deletes'[r].calls = whole.calls
                /\ share_links' = whole.share_links
                /\ bucket' = whole.bucket
      ]_vars

\* C21 witness: two requests for share id 1 have both ended, the one that
\* arrived second was answered 200 and the other 404, and the object is gone
C21_Witness ==
    /\ Len(deletes) = 2
    /\ DeletesOf(1) = {1, 2}
    /\ \A r \in {1, 2} : deletes[r].pc = "done" /\ deletes[r].remove = "ok"
    /\ deletes[2].response.status = 200
    /\ deletes[1].response.status = 404
    /\ deletes[1].calls = <<>>
    /\ EarlierPath(<<"a">>) \notin bucket

====
